---- MODULE Spec2Model ----
(***************************************************************************)
(* Model of lr7.py: the logging decorators logger and                      *)
(* solve_quadratic_logger, the rate fetch get_currencies and the pure      *)
(* quadratic solver solve_quadratic.                                       *)
(*                                                                         *)
(* Three specifications share the module:                                  *)
(*   SpecSolve  - the pure solver applied to bounded coefficients          *)
(*   SpecFetch  - get_currencies applied to bounded HTTP outcomes          *)
(*   Spec       - calls of wrapped functions against one shared sink       *)
(***************************************************************************)
EXTENDS Integers, Sequences, FiniteSets, TLC

VARIABLES
    qa, qb, qc,     \* solver: the three coefficients of one call
    qpc,            \* solver: "ready" before the call, "done" after it
    qres,           \* solver: outcome of the call
    http,           \* fetch: what requests.get produced for the url
    codes,          \* fetch: the requested currency codes, in order
    fpc,            \* fetch: "ready" before the call, "done" after it
    fres,           \* fetch: outcome of the call
    handle,         \* wrappers: the sink fixed at wrap time
    sink,           \* wrappers: what the sink received, one entry per operation
    calls           \* wrappers: per caller, the invocation in progress

vars == << qa, qb, qc, qpc, qres, http, codes, fpc, fres, handle, sink, calls >>

solveVars == << qa, qb, qc, qpc, qres >>
fetchVars == << http, codes, fpc, fres >>
wrapVars  == << handle, sink, calls >>

(***************************************************************************)
(* Bounds                                                                  *)
(***************************************************************************)
MaxCoef == 5
MaxCodes == 2
NumCallers == 2

(***************************************************************************)
(* Numbers.  A Python float produced by the solver is kept exactly, as     *)
(* (n + s*sqrt(d)) / m with s in {-1,0,1}; a rational has s = 0, d = 0,    *)
(* m > 0 and is in lowest terms.                                           *)
(***************************************************************************)
Abs(x) == IF x < 0 THEN -x ELSE x

Sgn(x) == IF x < 0 THEN -1 ELSE IF x = 0 THEN 0 ELSE 1

RECURSIVE Gcd(_, _)
Gcd(x, y) == IF y = 0 THEN x ELSE Gcd(y, x % y)

Rat(n, m) ==
    LET g == Gcd(Abs(n), Abs(m))
    IN  [n |-> (Sgn(m) * n) \div g, s |-> 0, d |-> 0, m |-> Abs(m) \div g]

IsSquare(d) == \E r \in 0..d : r * r = d

\* math.sqrt(x) for an integer x > 0
MathSqrt(x) ==
    IF IsSquare(x)
    THEN [n |-> CHOOSE r \in 0..x : r * r = x, s |-> 0, d |-> 0, m |-> 1]
    ELSE [n |-> 0, s |-> 1, d |-> x, m |-> 1]

\* k + x and k - x for an integer k and a float x with denominator 1
IntPlus(k, x)  == [n |-> k + x.n, s |-> x.s, d |-> x.d, m |-> 1]
IntMinus(k, x) == [n |-> k - x.n, s |-> -x.s, d |-> x.d, m |-> 1]

\* x / k for a float x with denominator 1 and an integer k # 0
DivBy(x, k) ==
    IF x.s = 0
    THEN Rat(x.n, k)
    ELSE [n |-> Sgn(k) * x.n, s |-> Sgn(k) * x.s, d |-> x.d, m |-> Abs(k)]

(***************************************************************************)
(* Coefficients: a Python value is numeric (int, float) or not (a str).    *)
(***************************************************************************)
NumCoef(v) == [num |-> TRUE, v |-> v]
StrCoef    == [num |-> FALSE, v |-> 0]

CoefVals == {NumCoef(v) : v \in -MaxCoef..MaxCoef} \cup {StrCoef}

Returned(val)    == [kind |-> "return", val |-> val, exc |-> "none", msg |-> "none"]
Raised(exc, msg) == [kind |-> "raise", val |-> << >>, exc |-> exc, msg |-> msg]
NoOutcome        == [kind |-> "none", val |-> << >>, exc |-> "none", msg |-> "none"]

(***************************************************************************)
(* solve_quadratic (the undecorated function body).  Exceptions keep their  *)
(* Python class; the source's Russian message texts are given in English.  *)
(***************************************************************************)
AllNumeric(a, b, c) == a.num /\ b.num /\ c.num

DiscriminantHalved(a, b, c) == b * b - 2 * a * c

Discriminant(a, b, c) == b * b - 4 * a * c

LinearRoot(b, c) == << Rat(-c, b) >>

DoubleRoot(a, b) == << Rat(-b, 2 * a) >>

TwoRootsSwapped(a, b, d) ==
    LET sqrt_disc == MathSqrt(d)
        x1 == DivBy(IntPlus(-b, sqrt_disc), 2 * a)
        x2 == DivBy(IntMinus(-b, sqrt_disc), 2 * a)
    IN  << x2, x1 >>

TwoRoots(a, b, d) ==
    LET sqrt_disc == MathSqrt(d)
        x1 == DivBy(IntPlus(-b, sqrt_disc), 2 * a)
        x2 == DivBy(IntMinus(-b, sqrt_disc), 2 * a)
    IN  << x1, x2 >>

solve_quadratic(ca, cb, cc) ==
    IF ~AllNumeric(ca, cb, cc)
    THEN Raised("TypeError", "Coefficients must be numbers")
    ELSE
      LET a == ca.v
          b == cb.v
          c == cc.v
          d == Discriminant(a, b, c)
      IN  IF a = 0
          THEN IF b = 0
               THEN IF c = 0
                    THEN Raised("ValueError", "Equation has infinitely many solutions")
                    ELSE Returned(<< >>)
               ELSE Returned(LinearRoot(b, c))
          ELSE IF d < 0 THEN Returned(<< >>)
               ELSE IF d = 0 THEN Returned(DoubleRoot(a, b))
               ELSE Returned(TwoRoots(a, b, d))

(***************************************************************************)
(* SpecSolve: one call of the pure solver on bounded coefficients          *)
(***************************************************************************)
IdleFetch == http = "unused" /\ codes = << >> /\ fpc = "unused" /\ fres = NoOutcome
IdleWrap  == handle = "unused" /\ sink = << >> /\ calls = << >>

InitSolve ==
    /\ qa \in CoefVals
    /\ qb \in CoefVals
    /\ qc \in CoefVals
    /\ qpc = "ready"
    /\ qres = NoOutcome
    /\ IdleFetch
    /\ IdleWrap

Solve ==
    /\ qpc = "ready"
    /\ qres' = solve_quadratic(qa, qb, qc)
    /\ qpc' = "done"
    /\ UNCHANGED << qa, qb, qc, fetchVars, wrapVars >>

NextSolve == Solve

SpecSolve == InitSolve /\ [][NextSolve]_vars

Flt(v) == [n |-> v, s |-> 0, d |-> 0, m |-> 1]

SolvedWith(a, b, c) ==
    qpc = "done" /\ qa = NumCoef(a) /\ qb = NumCoef(b) /\ qc = NumCoef(c)

\* 2*a*x + b = sign * sqrt(d), decided exactly on the representation of x
IsRootWithSign(x, a, b, d, sign) ==
    IF x.s = 0
    THEN LET t == 2 * a * x.n + b * x.m
         IN  Sgn(t) = sign /\ t * t = d * x.m * x.m
    ELSE /\ 2 * a * x.n + b * x.m = 0
         /\ Sgn(2 * a * x.s) = sign
         /\ (2 * a * x.s) * (2 * a * x.s) * x.d = d * x.m * x.m

\* The examples of C4 other than solve(1,-3,2)
SolveExamplesRest ==
    /\ SolvedWith(1, 0, 1) => qres = Returned(<< >>)
    /\ SolvedWith(0, 0, 5) => qres = Returned(<< >>)
    /\ SolvedWith(0, 2, 4) => qres = Returned(<< Flt(-2) >>)
    /\ SolvedWith(0, 0, 0) => qres.kind = "raise" /\ qres.exc = "ValueError"
    /\ (qpc = "done" /\ qa = StrCoef /\ qb = NumCoef(1) /\ qc = NumCoef(1))
          => qres.kind = "raise" /\ qres.exc = "TypeError"

\* C4 as stated: solve(1,-3,2) returns (1.0, 2.0) in that order, and the other
\* listed examples give the listed results.
C4_AsStated ==
    /\ SolvedWith(1, -3, 2) => qres = Returned(<< Flt(1), Flt(2) >>)
    /\ SolveExamplesRest

\* C4 amended: solve(1,-3,2) returns (2.0, 1.0) in that order (the root
\* (-b + sqrt(d))/(2a) first); solve(1,0,1) and solve(0,0,5) return the empty
\* sequence; solve(0,2,4) returns (-2.0,); solve(0,0,0) fails with ValueError
\* (DegenerateInfinite); a non-numeric coefficient fails with TypeError
\* (TypeMismatch).
C4_SolveExamples ==
    /\ SolvedWith(1, -3, 2) => qres = Returned(<< Flt(2), Flt(1) >>)
    /\ SolveExamplesRest

C4_Witness == SolvedWith(1, -3, 2) /\ qres.kind = "return" /\ Len(qres.val) = 2

\* C5: for all numeric a, b, c the solver follows the case policy:
\* a=b=c=0 raises ValueError; a=b=0, c#0 returns (); a=0, b#0 returns the one
\* root x with b*x + c = 0; otherwise with d = b*b - 4*a*c: d<0 returns (),
\* d=0 returns the one root x with 2*a*x + b = 0, d>0 returns two roots, the
\* first with 2*a*x + b = +sqrt(d), the second with 2*a*x + b = -sqrt(d).
\* No result has more than two elements.
C5_SolvePolicy ==
    (qpc = "done" /\ AllNumeric(qa, qb, qc)) =>
      LET a == qa.v
          b == qb.v
          c == qc.v
          d == b * b - 4 * a * c
          r == qres.val
      IN  /\ Len(r) <= 2
          /\ (a = 0 /\ b = 0 /\ c = 0) => qres.kind = "raise" /\ qres.exc = "ValueError"
          /\ (a = 0 /\ b = 0 /\ c # 0) => qres = Returned(<< >>)
          /\ (a = 0 /\ b # 0) =>
                /\ qres.kind = "return" /\ Len(r) = 1
                /\ r[1].s = 0 /\ r[1].m > 0 /\ b * r[1].n + c * r[1].m = 0
          /\ (a # 0 /\ d < 0) => qres = Returned(<< >>)
          /\ (a # 0 /\ d = 0) =>
                /\ qres.kind = "return" /\ Len(r) = 1
                /\ r[1].s = 0 /\ r[1].m > 0 /\ 2 * a * r[1].n + b * r[1].m = 0
          /\ (a # 0 /\ d > 0) =>
                /\ qres.kind = "return" /\ Len(r) = 2
                /\ r[1].m > 0 /\ IsRootWithSign(r[1], a, b, d, 1)
                /\ r[2].m > 0 /\ IsRootWithSign(r[2], a, b, d, -1)

\* two irrational roots of an equation with a negative leading coefficient
C5_Witness ==
    /\ qpc = "done" /\ AllNumeric(qa, qb, qc) /\ qa.v < 0
    /\ qres.kind = "return" /\ Len(qres.val) = 2 /\ qres.val[1].s # 0

(***************************************************************************)
(* get_currencies                                                          *)
(*                                                                         *)
(* The HTTP outcome is either a RequestException raised by requests.get    *)
(* (net = "fail") or a response with a status and a body.  A body is       *)
(* malformed, or JSON without "Valute", or JSON whose "Valute" maps every  *)
(* code of AllCodes to an entry: missing from the mapping, or a record     *)
(* whose "Value" is absent, null, a string, a boolean, an int or a float.  *)
(***************************************************************************)
AllCodes == {"USD", "EUR", "ZZZ"}

Statuses == {101, 200, 204, 304, 404, 503}

Missing == [present |-> FALSE, type |-> "absent", v |-> 0]

Entries ==
    { Missing,
      [present |-> TRUE, type |-> "absent", v |-> 0],
      [present |-> TRUE, type |-> "null",   v |-> 0],
      [present |-> TRUE, type |-> "str",    v |-> 75],
      [present |-> TRUE, type |-> "bool",   v |-> 1],
      [present |-> TRUE, type |-> "int",    v |-> 75],
      [present |-> TRUE, type |-> "float",  v |-> 91] }

NoValute == [c \in AllCodes |-> Missing]

Bodies ==
    { [json |-> FALSE, hasValute |-> FALSE, Valute |-> NoValute],
      [json |-> TRUE,  hasValute |-> FALSE, Valute |-> NoValute] }
    \cup { [json |-> TRUE, hasValute |-> TRUE, Valute |-> m] : m \in [AllCodes -> Entries] }

HttpOutcomes ==
    { [net |-> "fail", status |-> 0, body |-> [json |-> FALSE, hasValute |-> FALSE, Valute |-> NoValute]] }
    \cup { [net |-> "ok", status |-> st, body |-> b] : st \in Statuses, b \in Bodies }

RECURSIVE SeqsUpTo(_, _)
SeqsUpTo(S, n) ==
    IF n = 0 THEN { << >> }
    ELSE LET shorter == SeqsUpTo(S, n - 1)
         IN  shorter \cup { Append(q, x) : q \in shorter, x \in S }

EmptyDict == [order |-> << >>, at |-> [c \in {} |-> 0]]

\* result[code] = value
DictSet(dict, code, value) ==
    [order |-> IF code \in DOMAIN dict.at THEN dict.order ELSE Append(dict.order, code),
     at    |-> [c \in (DOMAIN dict.at) \cup {code} |->
                   IF c = code THEN value ELSE dict.at[c]]]

FetchOk(dict) == [kind |-> "return", val |-> dict, exc |-> "none", what |-> "none", code |-> "none"]
FetchErr(exc, what, code) ==
    [kind |-> "raise", val |-> EmptyDict, exc |-> exc, what |-> what, code |-> code]
FetchNone == [kind |-> "none", val |-> EmptyDict, exc |-> "none", what |-> "none", code |-> "none"]

\* response.raise_for_status(): HTTPError for the statuses 400..599
RaiseForStatusServerOnly(status) == 500 <= status /\ status < 600

RaiseForStatus(status) == 400 <= status /\ status < 600

\* currency_info.get("Value")
None == [type |-> "null", v |-> 0]
GetValue(currency_info) ==
    IF currency_info.type = "absent" THEN None
    ELSE [type |-> currency_info.type, v |-> currency_info.v]

\* isinstance(value, (int, float)); bool is a subclass of int
IsInstanceAnything(value) == TRUE

IsInstanceIntFloat(value) == value.type \in {"int", "float", "bool"}

\* the for loop over currency_codes, from position i with result built so far
RECURSIVE ScanCodes(_, _, _, _)
ScanCodes(currency_codes, valute_data, i, result) ==
    IF i > Len(currency_codes) THEN FetchOk(result)
    ELSE
      LET code == currency_codes[i]
      IN  IF ~valute_data[code].present
          THEN FetchErr("KeyError", "currency absent from API data", code)
          ELSE
            LET value == GetValue(valute_data[code])
            IN  IF value = None \/ ~IsInstanceIntFloat(value)
                THEN FetchErr("TypeError", "rate has wrong type or is absent", code)
                ELSE ScanCodes(currency_codes, valute_data, i + 1,
                               DictSet(result, code, value))

get_currencies(currency_codes, response) ==
    IF response.net = "fail" \/ RaiseForStatus(response.status)
    THEN FetchErr("ConnectionError", "API unavailable", "none")
    ELSE IF ~response.body.json
    THEN FetchErr("ValueError", "API answer is not valid JSON", "none")
    ELSE IF ~response.body.hasValute
    THEN FetchErr("KeyError", "API answer lacks key Valute", "none")
    ELSE ScanCodes(currency_codes, response.body.Valute, 1, EmptyDict)

InitFetch ==
    /\ http \in HttpOutcomes
    /\ codes \in SeqsUpTo(AllCodes, MaxCodes)
    /\ fpc = "ready"
    /\ fres = FetchNone
    /\ qa = StrCoef /\ qb = StrCoef /\ qc = StrCoef /\ qpc = "unused" /\ qres = NoOutcome
    /\ IdleWrap

Fetch ==
    /\ fpc = "ready"
    /\ fres' = get_currencies(codes, http)
    /\ fpc' = "done"
    /\ UNCHANGED << http, codes, solveVars, wrapVars >>

NextFetch == Fetch

SpecFetch == InitFetch /\ [][NextFetch]_vars

\* the payload reached the scan: a 2xx response whose JSON body has "Valute"
ScanReached ==
    /\ fpc = "done" /\ http.net = "ok" /\ http.status \in 200..299
    /\ http.body.json /\ http.body.hasValute

\* a code breaks a rule: absent from Valute, or its Value is absent, null or
\* not a number (a JSON boolean is an int to Python and is accepted as a rate)
BreaksRule(entry) == ~entry.present \/ entry.type \in {"absent", "null", "str"}

FirstIndexOf(c, q) == CHOOSE i \in 1..Len(q) : q[i] = c /\ \A j \in 1..(i - 1) : q[j] # c

C7_AsStated ==
    (fpc = "done" /\ (http.net = "fail" \/ http.status \notin 200..299))
        => (fres.kind = "raise" /\ fres.exc = "ConnectionError")

\* C7 amended: a network failure or a 4xx/5xx status fails with ConnectionError
\* whatever the body contains; every other response (1xx, 2xx, 3xx) has its body
\* parsed: malformed -> ValueError, no Valute -> KeyError, else the codes are
\* examined and the outcome is never ConnectionError.
C7_ConnectionFailure ==
    fpc = "done" =>
      IF http.net = "fail" \/ http.status \in 400..599
      THEN fres.kind = "raise" /\ fres.exc = "ConnectionError"
      ELSE /\ fres.exc # "ConnectionError"
           /\ ~http.body.json => (fres.kind = "raise" /\ fres.exc = "ValueError")
           /\ (http.body.json /\ ~http.body.hasValute) =>
                 (fres.kind = "raise" /\ fres.exc = "KeyError" /\ fres.code = "none")
           /\ (http.body.json /\ http.body.hasValute) =>
                 (fres.kind = "return" \/ fres.code \in AllCodes)

\* a 404 response with a well-formed payload and valid requested codes
C7_Witness ==
    /\ fpc = "done" /\ http.net = "ok" /\ http.status = 404
    /\ http.body.json /\ http.body.hasValute /\ Len(codes) >= 1
    /\ \A i \in 1..Len(codes) : ~BreaksRule(http.body.Valute[codes[i]])
    /\ fres.kind = "raise" /\ fres.exc = "ConnectionError"

(***************************************************************************)
(* The wrappers logger and solve_quadratic_logger                          *)
(***************************************************************************)

\* Python values handed through the wrappers
IntObj(v)       == [type |-> "int",      items |-> << >>, v |-> v]
TupleObj(items) == [type |-> "tuple",    items |-> items, v |-> 0]
FloatInf        == [type |-> "float",    items |-> << >>, v |-> 0]
PyNone          == [type |-> "NoneType", items |-> << >>, v |-> 0]

Ret(obj)      == [kind |-> "return", val |-> obj,    exc |-> "none", msg |-> "none"]
Exc(exc, msg) == [kind |-> "raise",  val |-> PyNone, exc |-> exc,    msg |-> msg]
NoResult      == [kind |-> "none",   val |-> PyNone, exc |-> "none", msg |-> "none"]

\* Sinks by the operations they expose: a text stream, a logging.Logger, and
\* an object that has info and error but no warning.
Handles == {"stream", "logger", "partial"}

Operations(h) ==
    CASE h = "stream"  -> {"write"}
      [] h = "logger"  -> {"info", "warning", "error", "critical"}
      [] h = "partial" -> {"info", "error"}

HasAttr(h, op) == op \in Operations(h)

is_logging_obj(h) == HasAttr(h, "info") /\ HasAttr(h, "error")

Method(level) ==
    CASE level = "INFO"    -> "info"
      [] level = "WARNING" -> "warning"
      [] level = "ERROR"   -> "error"

Message(level, event, name, exc, val) ==
    [level |-> level, event |-> event, name |-> name, exc |-> exc, val |-> val]

\* handle.write(f"{LEVEL}: {message}\n"): the sink operations one event costs
StreamWritesSplit(m) ==
    << [op |-> "write", part |-> "prefix", m |-> m],
       [op |-> "write", part |-> "message", m |-> m] >>

StreamWrites(m) == << [op |-> "write", part |-> "line", m |-> m] >>

\* handle.info(message), handle.warning(message), handle.error(message)
LevelCall(m) == << [op |-> Method(m.level), part |-> "raw", m |-> m] >>

Emission(h, m) == IF is_logging_obj(h) THEN LevelCall(m) ELSE StreamWrites(m)

\* Targets: the functions the test suite wraps with logger, solve_quadratic
\* on the demonstration's coefficients, and the demonstration's
\* lambda a, b, c: float('inf')
Target(func, args) == [func |-> func, args |-> args]

LoggerTargets ==
    { Target("test_func", << 5 >>),
      Target("test_func_error", << >>) }

QuadArgs ==
    { << NumCoef(1), NumCoef(-3), NumCoef(2) >>,
      << NumCoef(1), NumCoef(0),  NumCoef(1) >>,
      << NumCoef(0), NumCoef(2),  NumCoef(4) >>,
      << NumCoef(0), NumCoef(0),  NumCoef(0) >> }

QuadTargets ==
    { Target("solve_quadratic", a) : a \in QuadArgs }
    \cup { Target("lambda", << NumCoef(0), NumCoef(0), NumCoef(0) >>) }

\* func(*args, **kwargs)
InvokeTarget(t) ==
    CASE t.func = "test_func" -> Ret(IntObj(t.args[1] * 2))
      [] t.func = "test_func_error" -> Exc("ValueError", "Test error")
      [] t.func = "solve_quadratic" ->
           LET r == solve_quadratic(t.args[1], t.args[2], t.args[3])
           IN  IF r.kind = "return" THEN Ret(TupleObj(r.val)) ELSE Exc(r.exc, r.msg)
      [] t.func = "lambda" -> Ret(FloatInf)

ClassifyAllInfo(result) ==
    IF result.type = "tuple" /\ Len(result.items) = 0
    THEN [ok |-> TRUE, level |-> "INFO", event |-> "has no real solutions"]
    ELSE IF result.type # "tuple"
    THEN [ok |-> FALSE, level |-> "none", event |-> "none"]
    ELSE IF Len(result.items) = 1
    THEN [ok |-> TRUE, level |-> "INFO", event |-> "has one solution"]
    ELSE [ok |-> TRUE, level |-> "INFO", event |-> "has two solutions"]

\* lines 145-165: the outcome line chosen from the result, or the TypeError
\* of len() on a result that is not a sequence
Classify(result) ==
    IF result.type = "tuple" /\ Len(result.items) = 0
    THEN [ok |-> TRUE, level |-> "WARNING", event |-> "has no real solutions"]
    ELSE IF result.type # "tuple"
    THEN [ok |-> FALSE, level |-> "none", event |-> "none"]
    ELSE IF Len(result.items) = 1
    THEN [ok |-> TRUE, level |-> "INFO", event |-> "has one solution"]
    ELSE [ok |-> TRUE, level |-> "INFO", event |-> "has two solutions"]

\* return result
ReturnNothing(result) == Ret(PyNone)

ReturnResult(result) == Ret(result)

\* the bare raise at the end of the except block
RaiseOther(e) == Exc("RuntimeError", e.msg)

Reraise(e) == Exc(e.exc, e.msg)

Callers == 1..NumCallers

IdleCall ==
    [pc |-> "idle", wrapper |-> "none", name |-> "none", target |-> Target("none", << >>),
     tout |-> NoResult, pending |-> << >>, e |-> NoResult, out |-> NoResult]

Init ==
    /\ handle \in Handles
    /\ sink = << >>
    /\ calls = [p \in Callers |-> IdleCall]
    /\ qa = StrCoef /\ qb = StrCoef /\ qc = StrCoef /\ qpc = "unused" /\ qres = NoOutcome
    /\ IdleFetch

StartMessage(name) == Message("INFO", "Calling", name, "none", PyNone)
ReturnedMessage(name, result) == Message("INFO", "returned", name, "none", result)
RaisedMessageAsInfo(name, e) == Message("INFO", "raised", name, e.exc, PyNone)
RaisedMessage(name, e) == Message("ERROR", "raised", name, e.exc, PyNone)

\* the sink after the caller's next pending operation on it
Performed(p) ==
    LET o == Head(calls[p].pending)
    IN  Append(sink, [caller |-> p, op |-> o.op, part |-> o.part, m |-> o.m])

CanPerform(p) == HasAttr(handle, Head(calls[p].pending).op)

LastOperation(p) == Len(calls[p].pending) = 1

AttributeError == Exc("AttributeError", "object has no such attribute")

\* inner(*args, **kwargs) of logger is entered: lines 21-31
CallLogger(p, t) ==
    /\ calls[p].pc = "idle"
    /\ calls' = [calls EXCEPT ![p] =
                   [IdleCall EXCEPT !.pc = "start", !.wrapper = "logger",
                                    !.name = t.func, !.target = t,
                                    !.pending = Emission(handle, StartMessage(t.func))]]
    /\ UNCHANGED << handle, sink, solveVars, fetchVars >>

\* inner(a, b, c) of solve_quadratic_logger is entered: lines 134-137
CallQuad(p, t) ==
    /\ calls[p].pc = "idle"
    /\ calls' = [calls EXCEPT ![p] =
                   [IdleCall EXCEPT !.pc = "start", !.wrapper = "quad",
                                    !.name = "solve_quadratic", !.target = t,
                                    !.pending = Emission(handle, StartMessage("solve_quadratic"))]]
    /\ UNCHANGED << handle, sink, solveVars, fetchVars >>

\* the start event reaches the sink (lines 32-35, 138-141); it is outside the
\* try block, so a sink that lacks the operation ends the call at once
EmitStart(p) ==
    /\ calls[p].pc = "start"
    /\ IF CanPerform(p)
       THEN /\ sink' = Performed(p)
            /\ calls' = [calls EXCEPT ![p].pending = Tail(@),
                                      ![p].pc = IF LastOperation(p) THEN "invoke" ELSE @]
       ELSE /\ sink' = sink
            /\ calls' = [calls EXCEPT ![p].pending = << >>, ![p].pc = "done",
                                      ![p].out = AttributeError]
    /\ UNCHANGED << handle, solveVars, fetchVars >>

\* the target is called inside the try block (lines 38, 144); for
\* solve_quadratic_logger the result is classified as well (lines 145-165)
Invoke(p) ==
    /\ calls[p].pc = "invoke"
    /\ LET c == calls[p]
           r == InvokeTarget(c.target)
           k == Classify(r.val)
           lenError == Exc("TypeError", "object has no len()")
       IN  calls' = [calls EXCEPT ![p] =
             IF r.kind = "raise"
             THEN [c EXCEPT !.tout = r, !.e = r, !.pc = "except",
                            !.pending = Emission(handle, RaisedMessage(c.name, r))]
             ELSE IF c.wrapper = "logger"
             THEN [c EXCEPT !.tout = r, !.pc = "success",
                            !.pending = Emission(handle, ReturnedMessage(c.name, r.val))]
             ELSE IF k.ok
             THEN [c EXCEPT !.tout = r, !.pc = "classify",
                            !.pending = Emission(handle,
                                Message(k.level, k.event, c.name, "none", r.val))]
             ELSE [c EXCEPT !.tout = r, !.e = lenError, !.pc = "except",
                            !.pending = Emission(handle, RaisedMessage(c.name, lenError))]]
    /\ UNCHANGED << handle, sink, solveVars, fetchVars >>

\* the outcome line of solve_quadratic_logger reaches the sink (lines 147-165);
\* a sink without the operation raises AttributeError inside the try block
EmitOutcome(p) ==
    /\ calls[p].pc = "classify"
    /\ LET c == calls[p]
       IN  IF CanPerform(p)
           THEN /\ sink' = Performed(p)
                /\ calls' = [calls EXCEPT ![p] =
                       IF LastOperation(p)
                       THEN [c EXCEPT !.pc = "success",
                                      !.pending = Emission(handle,
                                          ReturnedMessage(c.name, c.tout.val))]
                       ELSE [c EXCEPT !.pending = Tail(@)]]
           ELSE /\ sink' = sink
                /\ calls' = [calls EXCEPT ![p] =
                       [c EXCEPT !.e = AttributeError, !.pc = "except",
                                 !.pending = Emission(handle,
                                     RaisedMessage(c.name, AttributeError))]]
    /\ UNCHANGED << handle, solveVars, fetchVars >>

\* the "returned" line reaches the sink and the result is returned
\* (lines 40-45, 167-172)
EmitReturned(p) ==
    /\ calls[p].pc = "success"
    /\ LET c == calls[p]
       IN  IF CanPerform(p)
           THEN /\ sink' = Performed(p)
                /\ calls' = [calls EXCEPT ![p] =
                       IF LastOperation(p)
                       THEN [c EXCEPT !.pc = "done", !.pending = << >>,
                                      !.out = ReturnResult(c.tout.val)]
                       ELSE [c EXCEPT !.pending = Tail(@)]]
           ELSE /\ sink' = sink
                /\ calls' = [calls EXCEPT ![p] =
                       [c EXCEPT !.e = AttributeError, !.pc = "except",
                                 !.pending = Emission(handle,
                                     RaisedMessage(c.name, AttributeError))]]
    /\ UNCHANGED << handle, solveVars, fetchVars >>

\* the except block: the error line reaches the sink and the exception is
\* raised again (lines 46-54, 173-179)
EmitRaised(p) ==
    /\ calls[p].pc = "except"
    /\ LET c == calls[p]
       IN  IF CanPerform(p)
           THEN /\ sink' = Performed(p)
                /\ calls' = [calls EXCEPT ![p] =
                       IF LastOperation(p)
                       THEN [c EXCEPT !.pc = "done", !.pending = << >>,
                                      !.out = Reraise(c.e)]
                       ELSE [c EXCEPT !.pending = Tail(@)]]
           ELSE /\ sink' = sink
                /\ calls' = [calls EXCEPT ![p] =
                       [c EXCEPT !.pc = "done", !.pending = << >>, !.out = AttributeError]]
    /\ UNCHANGED << handle, solveVars, fetchVars >>

Next ==
    \E p \in Callers :
        \/ \E t \in LoggerTargets : CallLogger(p, t)
        \/ \E t \in QuadTargets : CallQuad(p, t)
        \/ EmitStart(p)
        \/ Invoke(p)
        \/ EmitOutcome(p)
        \/ EmitReturned(p)
        \/ EmitRaised(p)

Spec == Init /\ [][Next]_vars

(***************************************************************************)
(* Properties of the wrappers                                              *)
(***************************************************************************)
EventsOf(p) == SelectSeq(sink, LAMBDA x : x.caller = p)

\* the sink operation that carries a message of the given level
OpFor(level) == IF handle = "stream" THEN "write" ELSE Method(level)

IsEvent(x, level, event) ==
    x.m.level = level /\ x.m.event = event /\ x.op = OpFor(level)

\* C1: when the target of logger returns R, the wrapped function returns
\* normally and returns exactly R, whatever the sink.
C1_ReturnUnchanged ==
    \A p \in Callers :
      (calls[p].wrapper = "logger" /\ calls[p].tout.kind = "return") =>
        /\ calls[p].pc \in {"success", "done"}
        /\ calls[p].pc = "done" =>
              /\ calls[p].out.kind = "return"
              /\ calls[p].out.val = calls[p].tout.val
              /\ calls[p].target.func = "test_func" => calls[p].out.val = IntObj(10)

C1_Witness ==
    \E p \in Callers :
      /\ handle = "logger" /\ calls[p].wrapper = "logger" /\ calls[p].pc = "done"
      /\ calls[p].target.func = "test_func" /\ calls[p].out.kind = "return"

\* C2: when the target of logger raises E, the wrapped function raises an error
\* of the same kind and message, and by then the sink holds, for that call,
\* the start event followed by the error event naming the kind.
C2_ErrorReraised ==
    \A p \in Callers :
      (calls[p].wrapper = "logger" /\ calls[p].tout.kind = "raise") =>
        /\ calls[p].pc \in {"except", "done"}
        /\ calls[p].pc = "done" =>
              /\ calls[p].out.kind = "raise"
              /\ calls[p].out.exc = calls[p].tout.exc
              /\ calls[p].out.msg = calls[p].tout.msg
              /\ LET ev == EventsOf(p)
                 IN  /\ Len(ev) = 2
                     /\ IsEvent(ev[1], "INFO", "Calling")
                     /\ IsEvent(ev[2], "ERROR", "raised")
                     /\ ev[2].m.exc = calls[p].tout.exc

C2_Witness ==
    \E p \in Callers :
      /\ calls[p].wrapper = "logger" /\ calls[p].pc = "done"
      /\ calls[p].tout = Exc("ValueError", "Test error")
      /\ calls[p].out = Exc("ValueError", "Test error")

\* C3: with a stream sink one invocation through logger writes exactly two
\* lines: "INFO: Calling ..." and then either "INFO: ... returned ..." (the
\* target returned) or "ERROR: ... raised <kind>: ..." (the target raised);
\* never both, never fewer or more than two.
C3_TwoLines ==
    handle = "stream" =>
      \A p \in Callers :
        calls[p].wrapper = "logger" =>
          LET ev == EventsOf(p)
          IN  /\ Len(ev) <= 2
              /\ \A i \in 1..Len(ev) : ev[i].op = "write" /\ ev[i].part = "line"
              /\ Len(ev) >= 1 => IsEvent(ev[1], "INFO", "Calling")
              /\ Len(ev) = 2 =>
                    \/ calls[p].tout.kind = "return" /\ IsEvent(ev[2], "INFO", "returned")
                    \/ /\ calls[p].tout.kind = "raise"
                       /\ IsEvent(ev[2], "ERROR", "raised")
                       /\ ev[2].m.exc = calls[p].tout.exc
              /\ calls[p].pc = "done" => Len(ev) = 2

C3_Witness ==
    /\ handle = "stream"
    /\ \E p \in Callers :
         /\ calls[p].wrapper = "logger" /\ calls[p].pc = "done"
         /\ calls[p].tout.kind = "raise" /\ Len(EventsOf(p)) = 2

\* the sinks of the data model: a text stream or a logger with every level
ModelSinks == {"stream", "logger"}

ExpectedOutcomeLine(x, n) ==
    CASE n = 0 -> IsEvent(x, "WARNING", "has no real solutions")
      [] n = 1 -> IsEvent(x, "INFO", "has one solution")
      [] n = 2 -> IsEvent(x, "INFO", "has two solutions")

C9_AtomicEvents ==
    /\ \A i \in 1..Len(sink) : sink[i].part \in {"line", "raw"}
    /\ \A p \in Callers :
         LET ev == EventsOf(p)
         IN  \A i \in 1..Len(ev) :
               /\ (ev[i].m.event = "Calling") <=> (i = 1)
               /\ ev[i].m.event \in {"returned", "raised"} =>
                     (i = Len(ev) /\ calls[p].pc = "done")

\* the events of two calls alternate in the sink
C9_Witness ==
    \E i, j, k \in 1..Len(sink) :
      /\ i < j /\ j < k
      /\ sink[i].caller = sink[k].caller /\ sink[j].caller # sink[i].caller
      /\ sink[k].m.event = "returned"

\* C10: in both wrappers an error-level event is emitted, and an error reaches
\* the caller, only if the target itself raised.
C10_ErrorOnlyFromTarget ==
    \A p \in Callers :
      (\/ calls[p].out.kind = "raise"
       \/ \E i \in 1..Len(sink) : sink[i].caller = p /\ sink[i].m.level = "ERROR")
        => calls[p].tout.kind = "raise"

====
